---- MODULE Spec2Model ----
(***************************************************************************)
(* Model of the arithmetic-expression front end of bicycle-book/src/ch09.rs *)
(* (lexer, recursive-descent parser, diagnostic reporter, interpreter and  *)
(* RPN compiler).                                                          *)
(*                                                                         *)
(* Representation.                                                         *)
(*  - A source string is the sequence of its bytes; a byte is written as   *)
(*    the one-character string of its ASCII character ("1", "+", " ").     *)
(*    Positions of the source are 0-based byte offsets, so byte `pos` of   *)
(*    the code is input[pos + 1] here.                                     *)
(*  - Loc(a, b) is the pair <<a, b>>.                                      *)
(*  - TLC's integers are 32 bits wide, the program's are 64: a u64 is the  *)
(*    sequence of its base-10^4 limbs, most significant first, without     *)
(*    leading zero limbs (10 is <<10>>, 12345 is <<1, 2345>>, 0 is <<0>>); *)
(*    an i64 is a record [neg, mag] of a sign and such a magnitude.  All   *)
(*    arithmetic on them is exact and keeps the 64-bit width of the code.  *)
(***************************************************************************)
EXTENDS Integers, Sequences, FiniteSets, TLC

\* The element of a one-element set.  Only({body : x \in {e}}) is body with
\* x bound to the value of e, which is then computed once, as a `let` of
\* the code is.
Only(S) == CHOOSE x \in S : TRUE

----------------------------------------------------------------------------
(* Exact arithmetic on natural numbers held as sequences of base-10^4      *)
(* limbs, most significant first, without leading zero limbs.  The         *)
(* operators avoid recursion where they can: carries are resolved by       *)
(* look-ahead instead of a loop.  Numbers of one limb are handled with     *)
(* the integers of TLC directly.                                           *)

Base == 10000

\* limb k of a, counted from the least significant one (k = 0), 0 beyond
Limb(a, k) == IF k >= 0 /\ k < Len(a) THEN a[Len(a) - k] ELSE 0

Strip(ds) ==
    IF \A i \in 1..Len(ds) : ds[i] = 0 THEN <<0>>
    ELSE SubSeq(ds, CHOOSE i \in 1..Len(ds) :
                        ds[i] # 0 /\ \A j \in 1..(i - 1) : ds[j] = 0,
                Len(ds))

NatLt(a, b) ==
    \/ Len(a) < Len(b)
    \/ /\ Len(a) = Len(b)
       /\ \E i \in 1..Len(a) : a[i] < b[i] /\ \A j \in 1..(i - 1) : a[j] = b[j]

NatLe(a, b) == a = b \/ NatLt(a, b)

\* one pass of carries over the columns c[0..n-1]: columns 0..n
CarryPass(c, n) ==
    [k \in 0..n |-> (IF k < n THEN c[k] % Base ELSE 0)
                    + (IF k > 0 THEN c[k - 1] \div Base ELSE 0)]

\* the number whose column k (k in 0..n-1, least significant first) holds
\* c[k] >= 0: three passes leave every column at most Base, and the carry
\* into a column is then 1 exactly when a column below it holds Base and
\* every column between them holds Base - 1
Normalize(c, n) ==
    Only({ Strip([i \in 1..(n + 3) |->
                    Only({ (t[k] + (IF \E j \in 0..(k - 1) :
                                          /\ t[j] >= Base
                                          /\ \A m \in (j + 1)..(k - 1) : t[m] >= Base - 1
                                    THEN 1 ELSE 0)) % Base :
                           k \in {n + 3 - i} })]) :
             t \in {CarryPass(CarryPass(CarryPass(c, n), n + 1), n + 2)} })

NatAdd(a, b) ==
    IF Len(a) = 1 /\ Len(b) = 1
    THEN Strip(<<(a[1] + b[1]) \div Base, (a[1] + b[1]) % Base>>)
    ELSE
    Only({ Normalize([k \in 0..(n - 1) |-> Limb(a, k) + Limb(b, k)], n) :
             n \in {IF Len(a) >= Len(b) THEN Len(a) ELSE Len(b)} })

\* a - b for a >= b: a column borrows exactly when the nearest lower column
\* that differs is negative
NatSub(a, b) ==
    Only({ Strip([i \in 1..Len(a) |->
                    Only({ (d[k] - (IF \E j \in 0..(k - 1) :
                                          /\ d[j] < 0
                                          /\ \A m \in (j + 1)..(k - 1) : d[m] <= 0
                                    THEN 1 ELSE 0) + Base) % Base :
                           k \in {Len(a) - i} })]) :
             d \in {[k \in 0..(Len(a) - 1) |-> Limb(a, k) - Limb(b, k)]} })

\* a * b for a of at most five limbs (a < 10^20, which holds of every u64
\* and of every magnitude of an i64)
NatMul(a, b) ==
    IF Len(a) = 1 /\ Len(b) = 1
    THEN Strip(<<(a[1] * b[1]) \div Base, (a[1] * b[1]) % Base>>)
    ELSE
    Only({ Normalize([k \in 0..(n - 1) |->
                        Limb(a, 0) * Limb(b, k) + Limb(a, 1) * Limb(b, k - 1)
                        + Limb(a, 2) * Limb(b, k - 2) + Limb(a, 3) * Limb(b, k - 3)
                        + Limb(a, 4) * Limb(b, k - 4)], n) :
             n \in {Len(b) + 4} })

\* the largest j in 0..9 with b * (k + j * p) <= r
QuotStep(b, r, k, p) ==
    k + p * (CHOOSE j \in 0..9 :
                /\ NatLe(NatMul(b, <<k + j * p>>), r)
                /\ (j = 9 \/ ~NatLe(NatMul(b, <<k + (j + 1) * p>>), r)))

\* the largest k in 0..Base-1 with b * k <= r, found digit by digit
QuotLimb(b, r) ==
    Only({ Only({ Only({ QuotStep(b, r, k2, 1) :
                           k2 \in {QuotStep(b, r, k1, 10)} }) :
                    k1 \in {QuotStep(b, r, k0, 100)} }) :
             k0 \in {QuotStep(b, r, 0, 1000)} })

\* long division by b # 0 of at most five limbs: [q, r] with
\* a = q * b + r and r < b
RECURSIVE DivLoop(_, _, _, _)
DivLoop(a, b, q, r) ==
    IF a = << >> THEN [q |-> Strip(q), r |-> r]
    ELSE Only({ DivLoop(ta, b, st.q, st.r) :
                  ta \in {Tail(a)},
                  st \in {Only({ Only({ [q |-> q \o <<k>>,
                                         r |-> NatSub(r1, NatMul(b, <<k>>))] :
                                        k \in {QuotLimb(b, r1)} }) :
                                 r1 \in {Strip(r \o <<a[1]>>)} })} })

NatDivMod(a, b) ==
    IF NatLt(a, b) THEN [q |-> <<0>>, r |-> a]
    ELSE IF Len(a) = 1 /\ Len(b) = 1
    THEN [q |-> <<a[1] \div b[1]>>, r |-> <<a[1] % b[1]>>]
    ELSE Only({ DivLoop(x, y, << >>, <<0>>) : x \in {a}, y \in {b} })

\* 2^64 = 18446744073709551616 and 2^63 = 9223372036854775808:
\* u64 is 0 .. 2^64 - 1, i64 is -2^63 .. 2^63 - 1
Pow2_64 == <<1844, 6744, 737, 955, 1616>>

Pow2_63 == <<922, 3372, 368, 5477, 5808>>

FitsU64(n) == NatLt(n, Pow2_64)

\* signed integers: [neg, mag], zero is not negative
SInt(neg, mag) == IF mag = <<0>> THEN [neg |-> FALSE, mag |-> <<0>>]
                  ELSE [neg |-> neg, mag |-> mag]

SNeg(x) == SInt(~x.neg, x.mag)

SAdd(x, y) ==
    IF x.neg = y.neg THEN SInt(x.neg, NatAdd(x.mag, y.mag))
    ELSE IF NatLe(y.mag, x.mag) THEN SInt(x.neg, NatSub(x.mag, y.mag))
    ELSE SInt(y.neg, NatSub(y.mag, x.mag))

SSub(x, y) == SAdd(x, SNeg(y))

SMul(x, y) == SInt(x.neg # y.neg, NatMul(x.mag, y.mag))

\* quotient truncated toward zero, y # 0
SDiv(x, y) == SInt(x.neg # y.neg, NatDivMod(x.mag, y.mag).q)

I64Min == [neg |-> TRUE, mag |-> Pow2_63]

FitsI64(x) == IF x.neg THEN NatLe(x.mag, Pow2_63) ELSE NatLt(x.mag, Pow2_63)

\* the i64 with the two's-complement bits of x modulo 2^64
WrapI64(x) ==
    Only({ Only({ IF NatLt(m, Pow2_63) THEN SInt(FALSE, m)
                  ELSE SInt(TRUE, NatSub(Pow2_64, m)) :
                    m \in {IF x.neg /\ r # <<0>> THEN NatSub(Pow2_64, r) ELSE r} }) :
             r \in {NatDivMod(x.mag, Pow2_64).r} })

SOfInt(k) == SInt(FALSE, <<k>>)

----------------------------------------------------------------------------
(* Loc, Annotation, Token *)

Min(a, b) == IF a <= b THEN a ELSE b

Max(a, b) == IF a >= b THEN a ELSE b

Loc(a, b) == <<a, b>>

merge(self, other) == Loc(Min(self[1], other[1]), Max(self[2], other[2]))

Annotation(value, loc) == [value |-> value, loc |-> loc]

Number(n) == [kind |-> "Number", n |-> n]

Kind(k) == [kind |-> k]

Digits == {"0", "1", "2", "3", "4", "5", "6", "7", "8", "9"}

Spaces == {" ", "\n", "\t"}

DigitVal(b) ==
    CASE b = "0" -> 0 [] b = "1" -> 1 [] b = "2" -> 2 [] b = "3" -> 3
      [] b = "4" -> 4 [] b = "5" -> 5 [] b = "6" -> 6 [] b = "7" -> 7
      [] b = "8" -> 8 [] b = "9" -> 9

DigitChar(d) ==
    CASE d = 0 -> "0" [] d = 1 -> "1" [] d = 2 -> "2" [] d = 3 -> "3"
      [] d = 4 -> "4" [] d = 5 -> "5" [] d = 6 -> "6" [] d = 7 -> "7"
      [] d = 8 -> "8" [] d = 9 -> "9"

Panic == [kind |-> "Panic"]

----------------------------------------------------------------------------
(* Lexer.  A lexer function returns [kind |-> "Ok", v, p] (the value and   *)
(* the position after it), [kind |-> "Err", e] or Panic; lex returns       *)
(* [kind |-> "Ok", tokens], [kind |-> "Err", e] or Panic.                  *)

\* a slip: the span of the byte left empty, as the span of eof is
invalid_char_empty(c, loc) ==
    Annotation([kind |-> "InvalidChar", c |-> c], Loc(loc[1], loc[1]))

invalid_char(c, loc) == Annotation([kind |-> "InvalidChar", c |-> c], loc)

eof(loc) == Annotation([kind |-> "Eof"], loc)

consume_byte(input, pos, b) ==
    IF Len(input) <= pos THEN [kind |-> "Err", e |-> eof(Loc(pos, pos))]
    ELSE IF input[pos + 1] # b
    THEN [kind |-> "Err", e |-> invalid_char(input[pos + 1], Loc(pos, pos + 1))]
    ELSE [kind |-> "Ok", v |-> b, p |-> pos + 1]

\* consume_byte(input, start, b).map(|(_, end)| (Token::k(Loc(start, end)), end))
lex_byte(input, start, b, k) ==
    Only({ IF r.kind = "Ok"
           THEN [kind |-> "Ok", v |-> Annotation(Kind(k), Loc(start, r.p)), p |-> r.p]
           ELSE r :
             r \in {consume_byte(input, start, b)} })

lex_plus(input, start) == lex_byte(input, start, "+", "Plus")

lex_minus(input, start) == lex_byte(input, start, "-", "Minus")

lex_asterisk(input, start) == lex_byte(input, start, "*", "Asterisk")

lex_slash(input, start) == lex_byte(input, start, "/", "Slash")

lex_lparen(input, start) == lex_byte(input, start, "(", "LParen")

lex_rparen(input, start) == lex_byte(input, start, ")", "RParen")

\* a slip: an `if` where the `while` is, so that one byte at most is taken
recognize_many_one(input, pos, f) ==
    IF pos < Len(input) /\ input[pos + 1] \in f THEN pos + 1 ELSE pos

\* f is given as the set of the bytes it accepts; the loop stops at the
\* first position from pos on that is the end of the input or holds a byte
\* outside f
recognize_many(input, pos, f) ==
    CHOOSE p \in pos..Len(input) :
        /\ \A q \in pos..(p - 1) : input[q + 1] \in f
        /\ (p = Len(input) \/ input[p + 1] \notin f)

\* the value of the digit k places left of the last one, 0 beyond the first
DigitAt(bytes, k) == IF k < Len(bytes) THEN DigitVal(bytes[Len(bytes) - k]) ELSE 0

\* str::parse::<u64> of a run of ASCII digits: the value, or an error when
\* it does not fit in 64 bits
parse_u64(bytes) ==
    Only({ IF FitsU64(n) THEN [kind |-> "Ok", v |-> n] ELSE [kind |-> "Err"] :
             n \in {Strip([i \in 1..((Len(bytes) + 3) \div 4) |->
                       Only({ DigitAt(bytes, 4 * k) + 10 * DigitAt(bytes, 4 * k + 1)
                                + 100 * DigitAt(bytes, 4 * k + 2)
                                + 1000 * DigitAt(bytes, 4 * k + 3) :
                              k \in {(Len(bytes) + 3) \div 4 - i} })])} })

lex_number(input, pos) ==
    Only({ Only({ IF n.kind = "Ok"
                  THEN [kind |-> "Ok", v |-> Annotation(Number(n.v), Loc(start, end)),
                        p |-> end]
                  ELSE Panic :      \* .parse().unwrap()
                    n \in {parse_u64(SubSeq(input, start + 1, end))} }) :
             start \in {pos}, end \in {recognize_many(input, pos, Digits)} })

skip_spaces(input, pos) ==
    [kind |-> "Ok", v |-> << >>, p |-> recognize_many(input, pos, Spaces)]

lex_a_token(input, pos) ==
    LET b == input[pos + 1]
    IN  CASE b \in Digits -> lex_number(input, pos)
          [] b = "+" -> lex_plus(input, pos)
          [] b = "-" -> lex_minus(input, pos)
          [] b = "*" -> lex_asterisk(input, pos)
          [] b = "/" -> lex_slash(input, pos)
          [] b = "(" -> lex_lparen(input, pos)
          [] b = ")" -> lex_rparen(input, pos)

----------------------------------------------------------------------------
(* AST and parser.  The token iterator is the pair of the token sequence   *)
(* and the index i of the token that next() returns (peek() is None when   *)
(* i > Len(tokens)).  A parser function returns [ok |-> TRUE, v, i] (the   *)
(* value and the iterator after it) or [ok |-> FALSE, err, i].             *)

num(n, loc) == [kind |-> "Num", n |-> n, loc |-> loc]

uni_op(op, e, loc) == [kind |-> "UniOp", op |-> op, e |-> e, loc |-> loc]

bin_op(op, l, r, loc) == [kind |-> "BinOp", op |-> op, l |-> l, r |-> r, loc |-> loc]

ParseError(k, tok) == [kind |-> k, tok |-> tok]

ParseEof == [kind |-> "Eof"]

POk(v, i) == [ok |-> TRUE, v |-> v, i |-> i]

PErr(err, i) == [ok |-> FALSE, err |-> err, i |-> i]

RECURSIVE parse_expr(_, _)

\* a slip: the end of the input where ) is expected reported as Eof, as it
\* is everywhere else
parse_atom_eof(tokens, i) ==
    IF i > Len(tokens) THEN PErr(ParseEof, i)
    ELSE Only({
           CASE tok.value.kind = "Number" -> POk(num(tok.value.n, tok.loc), i + 1)
             [] tok.value.kind = "LParen" ->
                  Only({ IF ~e.ok THEN e
                         ELSE IF e.i > Len(tokens)
                         THEN PErr(ParseEof, e.i)
                         ELSE IF tokens[e.i].value.kind = "RParen"
                         THEN POk(e.v, e.i + 1)
                         ELSE PErr(ParseError("RedundantExpression", tokens[e.i]), e.i + 1) :
                           e \in {Only({ parse_expr(tokens, j) : j \in {i + 1} })} })
             [] OTHER -> PErr(ParseError("NotExpression", tok), i + 1) :
               tok \in {tokens[i]} })

parse_atom(tokens, i) ==
    IF i > Len(tokens) THEN PErr(ParseEof, i)
    ELSE Only({
           CASE tok.value.kind = "Number" -> POk(num(tok.value.n, tok.loc), i + 1)
             [] tok.value.kind = "LParen" ->
                  Only({ IF ~e.ok THEN e
                         ELSE IF e.i > Len(tokens)
                         THEN PErr(ParseError("UnclosedOpenParen", tok), e.i)
                         ELSE IF tokens[e.i].value.kind = "RParen"
                         THEN POk(e.v, e.i + 1)
                         ELSE PErr(ParseError("RedundantExpression", tokens[e.i]), e.i + 1) :
                           e \in {Only({ parse_expr(tokens, j) : j \in {i + 1} })} })
             [] OTHER -> PErr(ParseError("NotExpression", tok), i + 1) :
               tok \in {tokens[i]} })

\* a slip: the operand of a sign parsed by parse_expr1 again, which lets a
\* sign follow a sign
RECURSIVE parse_expr1_nested(_, _)
parse_expr1_nested(tokens, i) ==
    IF i <= Len(tokens) /\ tokens[i].value.kind \in {"Plus", "Minus"}
    THEN Only({ IF ~e.ok THEN e
                ELSE POk(uni_op(op, e.v, merge(op.loc, e.v.loc)), e.i) :
                  op \in {Annotation(Kind(tokens[i].value.kind), tokens[i].loc)},
                  e \in {Only({ parse_expr1_nested(tokens, j) : j \in {i + 1} })} })
    ELSE parse_atom(tokens, i)

parse_expr1(tokens, i) ==
    IF i <= Len(tokens) /\ tokens[i].value.kind \in {"Plus", "Minus"}
    THEN Only({ IF ~e.ok THEN e
                ELSE POk(uni_op(op, e.v, merge(op.loc, e.v.loc)), e.i) :
                  op \in {Annotation(Kind(tokens[i].value.kind), tokens[i].loc)},
                  e \in {Only({ parse_atom(tokens, j) : j \in {i + 1} })} })
    ELSE parse_atom(tokens, i)

RECURSIVE parse_expr2_loop(_, _, _)
parse_expr2_loop(tokens, i, e) ==
    IF i <= Len(tokens) /\ tokens[i].value.kind \in {"Asterisk", "Slash"}
    THEN Only({ IF ~r.ok THEN r
                ELSE Only({ parse_expr2_loop(tokens, j, e2) :
                              j \in {r.i},
                              e2 \in {bin_op(op, e, r.v, merge(e.loc, r.v.loc))} }) :
                  op \in {IF tokens[i].value.kind = "Asterisk"
                          THEN Annotation(Kind("Multi"), tokens[i].loc)
                          ELSE Annotation(Kind("Div"), tokens[i].loc)},
                  r \in {Only({ parse_expr1(tokens, j) : j \in {i + 1} })} })
    ELSE POk(e, i)

parse_expr2(tokens, i) ==
    Only({ IF ~e.ok THEN e
           ELSE Only({ parse_expr2_loop(tokens, j, e1) : j \in {e.i}, e1 \in {e.v} }) :
             e \in {parse_expr1(tokens, i)} })

parse_expr3_op(tokens, i) ==
    IF i > Len(tokens) THEN PErr(ParseEof, i)
    ELSE Only({
           CASE tok.value.kind = "Plus" -> POk(Annotation(Kind("Add"), tok.loc), i + 1)
             [] tok.value.kind = "Minus" -> POk(Annotation(Kind("Sub"), tok.loc), i + 1)
             [] OTHER -> PErr(ParseError("NotOperator", tok), i) :
               tok \in {tokens[i]} })

\* parse_left_binop is called once, by parse_expr3, with these two parsers
sub_expr_parser(tokens, i) == parse_expr2(tokens, i)

op_parser(tokens, i) == parse_expr3_op(tokens, i)

\* a slip: the right operand parsed as a whole expression, which groups a
\* chain to the right
parse_left_binop_loop_right(tokens, i, e) ==
    IF i <= Len(tokens)
    THEN Only({
           IF ~op.ok THEN POk(e, op.i)
           ELSE Only({ IF ~r.ok THEN r
                       ELSE POk(bin_op(op.v, e, r.v, merge(e.loc, r.v.loc)), r.i) :
                         r \in {Only({ parse_expr(tokens, j) : j \in {op.i} })} }) :
             op \in {op_parser(tokens, i)} })
    ELSE POk(e, i)

\* a slip: the error of the operator parser returned (?) where the loop
\* breaks on it
RECURSIVE parse_left_binop_loop_strict(_, _, _)
parse_left_binop_loop_strict(tokens, i, e) ==
    IF i <= Len(tokens)
    THEN Only({
           IF ~op.ok THEN op
           ELSE Only({ IF ~r.ok THEN r
                       ELSE Only({ parse_left_binop_loop_strict(tokens, j, e2) :
                                     j \in {r.i},
                                     e2 \in {bin_op(op.v, e, r.v, merge(e.loc, r.v.loc))} }) :
                         r \in {Only({ sub_expr_parser(tokens, j) : j \in {op.i} })} }) :
             op \in {op_parser(tokens, i)} })
    ELSE POk(e, i)

RECURSIVE parse_left_binop_loop(_, _, _)
parse_left_binop_loop(tokens, i, e) ==
    IF i <= Len(tokens)
    THEN Only({
           IF ~op.ok THEN POk(e, op.i)        \* Err(_) => break
           ELSE Only({ IF ~r.ok THEN r
                       ELSE Only({ parse_left_binop_loop(tokens, j, e2) :
                                     j \in {r.i},
                                     e2 \in {bin_op(op.v, e, r.v, merge(e.loc, r.v.loc))} }) :
                         r \in {Only({ sub_expr_parser(tokens, j) : j \in {op.i} })} }) :
             op \in {op_parser(tokens, i)} })
    ELSE POk(e, i)

parse_left_binop(tokens, i) ==
    Only({ IF ~e.ok THEN e
           ELSE Only({ parse_left_binop_loop(tokens, j, e1) : j \in {e.i}, e1 \in {e.v} }) :
             e \in {sub_expr_parser(tokens, i)} })

parse_expr3(tokens, i) == parse_left_binop(tokens, i)

parse_expr(tokens, i) == parse_expr3(tokens, i)

\* a slip: the tokens left after the expression are not looked at
parse_lenient(tokens) ==
    Only({ IF ~ret.ok THEN [kind |-> "Err", err |-> ret.err]
           ELSE [kind |-> "Ok", ast |-> ret.v] :
             ret \in {Only({ parse_expr(toks, 1) : toks \in {tokens} })} })

\* [kind |-> "Ok", ast] or [kind |-> "Err", err]
parse(tokens) ==
    Only({ IF ~ret.ok THEN [kind |-> "Err", err |-> ret.err]
           ELSE IF ret.i <= Len(tokens)
           THEN [kind |-> "Err", err |-> ParseError("RedundantExpression", tokens[ret.i])]
           ELSE [kind |-> "Ok", ast |-> ret.v] :
             ret \in {Only({ parse_expr(toks, 1) : toks \in {tokens} })} })

----------------------------------------------------------------------------
(* Diagnostic reporter.  What is printed is returned: the two lines of     *)
(* print_annotation are the input, then `spaces` blanks and `carets` ^.    *)

Width(x) == IF x >= 1000 THEN 4 ELSE IF x >= 100 THEN 3 ELSE IF x >= 10 THEN 2 ELSE 1

Pow10(t) == CASE t = 0 -> 1 [] t = 1 -> 10 [] t = 2 -> 100 [] t = 3 -> 1000

\* u64::to_string: the first limb in decimal, the others as four digits each
to_string(n) ==
    Only({ [p \in 1..(w + 4 * (Len(n) - 1)) |->
              IF p <= w THEN DigitChar((n[1] \div Pow10(w - p)) % 10)
              ELSE DigitChar((n[2 + (p - w - 1) \div 4]
                              \div Pow10(3 - ((p - w - 1) % 4))) % 10)] :
             w \in {Width(n[1])} })

\* usize::to_string: the decimal digits of k, through its limbs
usize_to_string(k) ==
    to_string(Strip(<<k \div (Base * Base), (k \div Base) % Base, k % Base>>))

\* Display of Loc
fmt_loc(loc) == usize_to_string(loc[1]) \o <<"-">> \o usize_to_string(loc[2])

\* Display of TokenKind
fmt_token_kind(value) ==
    CASE value.kind = "Number" -> to_string(value.n)
      [] value.kind = "Plus" -> <<"+">>
      [] value.kind = "Minus" -> <<"-">>
      [] value.kind = "Asterisk" -> <<"*">>
      [] value.kind = "Slash" -> <<"/">>
      [] value.kind = "LParen" -> <<"(">>
      [] value.kind = "RParen" -> <<")">>

EndOfFile == <<"E", "n", "d", " ", "o", "f", " ", "f", "i", "l", "e">>    \* "End of file"

\* Display of LexError
fmt_lex_error(e) ==
    CASE e.value.kind = "InvalidChar" ->
           fmt_loc(e.loc) \o <<":", " ", "i", "n", "v", "a", "l", "i", "d", " ", "c", "h", "a", "r", " ", "'">>
             \o <<e.value.c, "'">>
      [] e.value.kind = "Eof" -> EndOfFile

\* Display of ParseError, the messages of its error attributes
fmt_parse_error(e) ==
    CASE e.kind = "UnexpectedToken" ->
           fmt_loc(e.tok.loc) \o <<":", " ">> \o fmt_token_kind(e.tok.value)
             \o <<" ", "i", "s", " ", "n", "o", "t", " ", "e", "x", "p", "e", "c", "t", "e", "d">>
      [] e.kind = "NotExpression" ->
           fmt_loc(e.tok.loc) \o <<":", " ", "'">> \o fmt_token_kind(e.tok.value)
             \o <<"'", " ", "i", "s", " ", "n", "o", "t", " ", "a", " ", "s", "t", "a", "r", "t", " ", "o", "f", " ", "e", "x", "p", "r", "e", "s", "s", "i", "o", "n">>
      [] e.kind = "NotOperator" ->
           fmt_loc(e.tok.loc) \o <<":", " ", "'">> \o fmt_token_kind(e.tok.value)
             \o <<"'", " ", "i", "s", " ", "n", "o", "t", " ", "a", "n", " ", "o", "p", "e", "r", "a", "t", "o", "r">>
      [] e.kind = "UnclosedOpenParen" ->
           fmt_loc(e.tok.loc) \o <<":", " ", "'">> \o fmt_token_kind(e.tok.value)
             \o <<"'", " ", "i", "s", " ", "n", "o", "t", " ", "c", "l", "o", "s", "e", "d">>
      [] e.kind = "RedundantExpression" ->
           fmt_loc(e.tok.loc)
             \o <<":", " ", "e", "x", "p", "r", "e", "s", "s", "i", "o", "n", " ", "a", "f", "t", "e", "r", " ", "'">>
             \o fmt_token_kind(e.tok.value)
             \o <<"'", " ", "i", "s", " ", "r", "e", "d", "u", "n", "d", "a", "n", "t">>
      [] e.kind = "Eof" -> EndOfFile

\* Display of InterpreterError
fmt_interpreter_error(e) ==
    CASE e.value = "DivisionByZero" ->
           <<"d", "i", "v", "i", "s", "i", "o", "n", " ", "b", "y", " ", "z", "e", "r", "o">>

\* the input is printed, then loc.0 spaces and loc.1 - loc.0 carets: with
\* loc.1 < loc.0 the subtraction panics where overflow is checked and the
\* repeat panics (capacity overflow) where it wraps, after the first line
print_annotation(input, loc) ==
    IF loc[2] < loc[1]
    THEN [kind |-> "Panic", loc |-> loc, line |-> input]
    ELSE [kind |-> "Shown", loc |-> loc, line |-> input,
          spaces |-> loc[1], carets |-> loc[2] - loc[1]]

\* a slip: the highlight of RedundantExpression ended one past the end of
\* the input, as the highlight of Eof is
show_diagnostic_past_end(self, input) ==
    LET loc == IF self.kind = "Lexer" THEN self.e.loc
               ELSE CASE self.e.kind \in {"UnexpectedToken", "NotExpression",
                                          "NotOperator", "UnclosedOpenParen"} ->
                           self.e.tok.loc
                      [] self.e.kind = "RedundantExpression" ->
                           Loc(self.e.tok.loc[1], Len(input) + 1)
                      [] self.e.kind = "Eof" -> Loc(Len(input), Len(input) + 1)
        e   == IF self.kind = "Lexer" THEN fmt_lex_error(self.e)
               ELSE fmt_parse_error(self.e)
    IN  [before |-> <<e>>] @@ print_annotation(input, loc)

\* self is [kind |-> "Lexer", e] or [kind |-> "Parser", e]; what is
\* printed: the message of the error in `before`, then the lines of
\* print_annotation
show_diagnostic(self, input) ==
    LET loc == IF self.kind = "Lexer" THEN self.e.loc
               ELSE CASE self.e.kind \in {"UnexpectedToken", "NotExpression",
                                          "NotOperator", "UnclosedOpenParen"} ->
                           self.e.tok.loc
                      [] self.e.kind = "RedundantExpression" ->
                           Loc(self.e.tok.loc[1], Len(input))
                      [] self.e.kind = "Eof" -> Loc(Len(input), Len(input) + 1)
        e   == IF self.kind = "Lexer" THEN fmt_lex_error(self.e)
               ELSE fmt_parse_error(self.e)
    IN  [before |-> <<e>>] @@ print_annotation(input, loc)

\* InterpreterError::show_diagnostic
show_interpreter_diagnostic(self, input) ==
    [before |-> <<fmt_interpreter_error(self)>>] @@ print_annotation(input, self.loc)

----------------------------------------------------------------------------
(* Interpreter.  The result is [kind |-> "Ok", v] with v an i64,           *)
(* [kind |-> "Err", e] or Panic.  overflow_checks is the build's setting   *)
(* of integer overflow checks: on (debug builds, cargo test) an overflowing*)
(* + - * or negation panics, off (release builds) it wraps.                *)

Ok(v) == [kind |-> "Ok", v |-> v]

Overflowing(x, overflow_checks) ==
    IF FitsI64(x) THEN Ok(x)
    ELSE IF overflow_checks THEN Panic ELSE Ok(WrapI64(x))

eval_uni_op(op, n, overflow_checks) ==
    IF op.value.kind = "Plus" THEN Ok(n)
    ELSE Only({ Overflowing(x, overflow_checks) : x \in {SNeg(n)} })

\* [kind |-> "Err", e] carries the InterpreterErrorKind
eval_bin_op(op, l, r, overflow_checks) ==
    CASE op.value.kind = "Add" ->
           Only({ Overflowing(x, overflow_checks) : x \in {SAdd(l, r)} })
      [] op.value.kind = "Sub" ->
           Only({ Overflowing(x, overflow_checks) : x \in {SSub(l, r)} })
      [] op.value.kind = "Multi" ->
           Only({ Overflowing(x, overflow_checks) : x \in {SMul(l, r)} })
      [] op.value.kind = "Div" ->
           IF r = SOfInt(0) THEN [kind |-> "Err", e |-> "DivisionByZero"]
           ELSE IF l = I64Min /\ r = SInt(TRUE, <<1>>)
           THEN Panic       \* i64::MIN / -1 panics in every build
           ELSE Ok(SDiv(l, r))

\* a slip: the right operand evaluated before the left one
RECURSIVE eval_right_first(_, _)
eval_right_first(expr, overflow_checks) ==
    CASE expr.kind = "Num" -> Ok(WrapI64(SInt(FALSE, expr.n)))
      [] expr.kind = "UniOp" ->
           Only({ IF e.kind # "Ok" THEN e
                  ELSE eval_uni_op(expr.op, e.v, overflow_checks) :
                    e \in {Only({ eval_right_first(sub, overflow_checks) :
                                    sub \in {expr.e} })} })
      [] expr.kind = "BinOp" ->
           Only({ IF r.kind # "Ok" THEN r
                  ELSE Only({
                         IF l.kind # "Ok" THEN l
                         ELSE Only({ IF v.kind = "Err"
                                     THEN [kind |-> "Err",
                                           e |-> Annotation(v.e, expr.loc)]
                                     ELSE v :
                                       v \in {eval_bin_op(expr.op, l.v, r.v,
                                                          overflow_checks)} }) :
                           l \in {Only({ eval_right_first(sub, overflow_checks) :
                                           sub \in {expr.l} })} }) :
                    r \in {Only({ eval_right_first(sub, overflow_checks) :
                                    sub \in {expr.r} })} })

RECURSIVE eval(_, _)
eval(expr, overflow_checks) ==
    CASE expr.kind = "Num" -> Ok(WrapI64(SInt(FALSE, expr.n)))      \* n as i64
      [] expr.kind = "UniOp" ->
           Only({ IF e.kind # "Ok" THEN e
                  ELSE eval_uni_op(expr.op, e.v, overflow_checks) :
                    e \in {Only({ eval(sub, overflow_checks) : sub \in {expr.e} })} })
      [] expr.kind = "BinOp" ->
           Only({ IF l.kind # "Ok" THEN l
                  ELSE Only({
                         IF r.kind # "Ok" THEN r
                         ELSE Only({ IF v.kind = "Err"
                                     THEN [kind |-> "Err",
                                           e |-> Annotation(v.e, expr.loc)]
                                     ELSE v :
                                       v \in {eval_bin_op(expr.op, l.v, r.v,
                                                          overflow_checks)} }) :
                           r \in {Only({ eval(sub, overflow_checks) :
                                           sub \in {expr.r} })} }) :
                    l \in {Only({ eval(sub, overflow_checks) : sub \in {expr.l} })} })

----------------------------------------------------------------------------
(* RPN compiler.  buf is the String being built, as its characters.        *)

\* the number of decimal digits of a limb
\* a slip: a space pushed after the sign, as one is around a binary
\* operator
compile_uni_op_spaced(op, buf) ==
    IF op.value.kind = "Plus" THEN buf \o <<"+", " ">> ELSE buf \o <<"-", " ">>

compile_uni_op(op, buf) ==
    IF op.value.kind = "Plus" THEN Append(buf, "+") ELSE Append(buf, "-")

compile_bin_op(op, buf) ==
    CASE op.value.kind = "Add" -> Append(buf, "+")
      [] op.value.kind = "Sub" -> Append(buf, "-")
      [] op.value.kind = "Multi" -> Append(buf, "*")
      [] op.value.kind = "Div" -> Append(buf, "/")

RECURSIVE compile_inner(_, _)
compile_inner(expr, buf) ==
    CASE expr.kind = "Num" -> buf \o to_string(expr.n)
      [] expr.kind = "UniOp" ->
           Only({ compile_inner(sub, b1) :
                    sub \in {expr.e}, b1 \in {compile_uni_op(expr.op, buf)} })
      [] expr.kind = "BinOp" ->
           Only({ Only({ compile_bin_op(expr.op, Append(b3, " ")) :
                           b3 \in {Only({ compile_inner(sub, b2) :
                                            sub \in {expr.r},
                                            b2 \in {Append(b1, " ")} })} }) :
                    b1 \in {Only({ compile_inner(sub, b0) :
                                     sub \in {expr.l}, b0 \in {buf} })} })

compile(expr) == compile_inner(expr, << >>)

----------------------------------------------------------------------------
(* Inputs: every string of at most MaxLen bytes over Alphabet, and the     *)
(* strings of the tests and of the examples, with some that reach the      *)
(* limits of u64 and i64.                                                  *)

MaxLen == 4

MaxCompile == 2

Alphabet == {"0", "1", "+", "-", "*", "/", "(", ")", " ", "a"}

InLexerTest == <<"1", " ", "+", " ", "2", " ", "*", " ", "3", " ", "-", " ", "-", " ", "1", "0">>    \* '1 + 2 * 3 - - 10'

InRedundant == <<"(", "+", " ", "1", " ", "3", ")">>    \* '(+ 1 3)'

InUnclosed == <<"1", " ", "+", " ", "(", "2", " ", "-", " ", "3">>    \* '1 + (2 - 3'

InNotExpression == <<"1", " ", "+", " ", "2", " ", "-", " ", "*", " ", "3">>    \* '1 + 2 - * 3'

InEof == <<"1", " ", "+">>    \* '1 +'

InInvalidChar == <<"a", "i", "u", "e", "o">>    \* 'aiueo'

InDivZero == <<"4", " ", "/", " ", "0">>    \* '4 / 0'

InLeftAssoc == <<"8", " ", "-", " ", "3", " ", "-", " ", "2">>    \* '8 - 3 - 2'

InPrecedence == <<"1", " ", "+", " ", "2", " ", "*", " ", "3">>    \* '1 + 2 * 3'

InParens == <<"(", "1", " ", "+", " ", "2", ")", " ", "*", " ", "3">>    \* '(1 + 2) * 3'

InU64Max == <<"1", "8", "4", "4", "6", "7", "4", "4", "0", "7", "3", "7", "0", "9", "5", "5", "1", "6", "1", "5">>    \* '18446744073709551615'

InU64Over == <<"1", "8", "4", "4", "6", "7", "4", "4", "0", "7", "3", "7", "0", "9", "5", "5", "1", "6", "1", "6">>    \* '18446744073709551616'

InU64OverThenInvalid == <<"1", "8", "4", "4", "6", "7", "4", "4", "0", "7", "3", "7", "0", "9", "5", "5", "1", "6", "1", "6", "a">>    \* '18446744073709551616a'

InU64OverThenEof == <<"1", "8", "4", "4", "6", "7", "4", "4", "0", "7", "3", "7", "0", "9", "5", "5", "1", "6", "1", "6", " ", "+">>    \* '18446744073709551616 +'

InAddOverflow == <<"9", "2", "2", "3", "3", "7", "2", "0", "3", "6", "8", "5", "4", "7", "7", "5", "8", "0", "7", " ", "+", " ", "1">>    \* '9223372036854775807 + 1'

InNegOverflow == <<"-", "9", "2", "2", "3", "3", "7", "2", "0", "3", "6", "8", "5", "4", "7", "7", "5", "8", "0", "8">>    \* '-9223372036854775808'

InDivOverflow == <<"9", "2", "2", "3", "3", "7", "2", "0", "3", "6", "8", "5", "4", "7", "7", "5", "8", "0", "8", " ", "/", " ", "-", "1">>    \* '9223372036854775808 / -1'

InMulOverflow == <<"3", "0", "0", "0", "0", "0", "0", "0", "0", "0", " ", "*", " ", "4", "0", "0", "0", "0", "0", "0", "0", "0", "0">>    \* '3000000000 * 4000000000'

InOverflowThenDivZero == <<"(", "9", "2", "2", "3", "3", "7", "2", "0", "3", "6", "8", "5", "4", "7", "7", "5", "8", "0", "7", " ", "+", " ", "1", ")", " ", "/", " ", "0">>    \* '(9223372036854775807 + 1) / 0'

InDivZeroTwice == <<"1", " ", "/", " ", "0", " ", "+", " ", "2", " ", "/", " ", "(", "3", " ", "-", " ", "3", ")">>    \* '1 / 0 + 2 / (3 - 3)'

InDivZeroRight == <<"2", " ", "*", " ", "(", "7", " ", "/", " ", "(", "1", " ", "-", " ", "1", ")", ")">>    \* '2 * (7 / (1 - 1))'

InLeadingZeros == <<"0", "0", "7", " ", "-", " ", "1", "0">>    \* '007 - 10'

InWhitespace == <<"1", "\t", "*", "\n", "-", "(", "2", ")">>    \* '1\t*\n-(2)'

InMulChain == <<"8", " ", "/", " ", "2", " ", "*", " ", "3", " ", "/", " ", "4">>    \* '8 / 2 * 3 / 4'

InNested == <<"(", "(", "1">>    \* '((1'

InTrunc == <<"-", "7", " ", "/", " ", "2">>    \* '-7 / 2'

NamedInputs == {InLexerTest, InRedundant, InUnclosed, InNotExpression,
                InEof, InInvalidChar, InDivZero, InLeftAssoc,
                InPrecedence, InParens, InU64Max, InU64Over,
                InU64OverThenInvalid, InU64OverThenEof, InAddOverflow, InNegOverflow,
                InDivOverflow, InMulOverflow, InOverflowThenDivZero, InDivZeroTwice,
                InDivZeroRight, InLeadingZeros, InWhitespace, InMulChain,
                InNested, InTrunc}

Inputs == UNION {[1..n -> Alphabet] : n \in 0..MaxLen} \cup NamedInputs

----------------------------------------------------------------------------
(* The state machine: one source string is taken through from_str (lex,    *)
(* one iteration of its loop at a time, then parse), its AST through the   *)
(* interpreter and the compiler, its error through the diagnostic reporter.*)
(*   pos, tokens  the locals of lex                                        *)
(*   lexed        Running while lex is in its loop, then what it returned: *)
(*                [kind |-> "Ok", tokens], [kind |-> "Err", e] or Panic    *)
(*   result       what from_str returned: [kind |-> "Ok", ast],            *)
(*                [kind |-> "Lexer", e], [kind |-> "Parser", e] or Panic   *)
(*   evaluated    what Interpreter.eval returned                           *)
(*   build        None until the interpreter runs, then the build it runs  *)
(*                in: [kind |-> "Build", overflow_checks]                  *)
(*   rpn          the strings RpnCompiler.compile returned, in call order  *)
(*   diag         what show_diagnostic printed, and whether it panicked    *)

VARIABLES input, pos, tokens, lexed, result, evaluated, build, rpn, diag

(* The state of the RPN calculator of gear-book/src/ch04.rs, a program of  *)
(* its own:                                                                *)
(*   formula      the string given to RpnCalculator.eval                   *)
(*   verbose      the field of RpnCalculator                               *)
(*   calc_checks  the build's setting of integer overflow checks           *)
(*   calc_tokens, calc_stack, calc_pos                                     *)
(*                the tokens, stack and pos of eval_inner                  *)
(*   calc_result  None before eval is called, Running while eval_inner is  *)
(*                in its loop, then what eval returned: [kind |-> "Ok", v],*)
(*                [kind |-> "Err", e] or Panic                             *)
(*   printed      the lines that eval_inner printed                        *)
VARIABLES formula, verbose, calc_checks, calc_tokens, calc_stack, calc_pos,
          calc_result, printed

calc_vars == <<formula, verbose, calc_checks, calc_tokens, calc_stack, calc_pos,
               calc_result, printed>>

vars == <<input, pos, tokens, lexed, result, evaluated, build, rpn, diag,
          formula, verbose, calc_checks, calc_tokens, calc_stack, calc_pos,
          calc_result, printed>>

None == [kind |-> "None"]

Running == [kind |-> "Running"]

\* the calculator is not run
CalcIdle ==
    /\ formula = << >>
    /\ verbose = FALSE
    /\ calc_checks = FALSE
    /\ calc_tokens = << >>
    /\ calc_stack = << >>
    /\ calc_pos = 0
    /\ calc_result = None
    /\ printed = << >>

Init ==
    /\ CalcIdle
    /\ input \in Inputs
    /\ pos = 0
    /\ tokens = << >>
    /\ lexed = Running
    /\ result = None
    /\ evaluated = None
    /\ build = None
    /\ rpn = << >>
    /\ diag = None

\* lex, one iteration of `while pos < input.len()`: a token is lexed and
\* pushed, or a run of spaces skipped, or the loop left by an error
LexStep ==
    /\ lexed = Running
    /\ pos < Len(input)
    /\ IF input[pos + 1] \in Digits \cup {"+", "-", "*", "/", "(", ")"}
       THEN \E r \in {lex_a_token(input, pos)} :
               IF r.kind = "Ok"
               THEN /\ tokens' = Append(tokens, r.v)
                    /\ pos' = r.p
                    /\ lexed' = lexed
               ELSE /\ lexed' = r
                    /\ UNCHANGED <<pos, tokens>>
       ELSE IF input[pos + 1] \in Spaces
       THEN /\ pos' = skip_spaces(input, pos).p
            /\ UNCHANGED <<tokens, lexed>>
       ELSE /\ lexed' = [kind |-> "Err",
                         e |-> invalid_char(input[pos + 1], Loc(pos, pos + 1))]
            /\ UNCHANGED <<pos, tokens>>
    /\ UNCHANGED <<input, result, evaluated, build, rpn, diag>>
    /\ UNCHANGED calc_vars

\* lex, the loop is over: Ok(tokens)
LexReturn ==
    /\ lexed = Running
    /\ ~(pos < Len(input))
    /\ lexed' = [kind |-> "Ok", tokens |-> tokens]
    /\ UNCHANGED <<input, pos, tokens, result, evaluated, build, rpn, diag>>
    /\ UNCHANGED calc_vars

\* from_str after lex returned: `lex(s)?`, then `parse(tokens)?`
FromStr ==
    /\ lexed # Running
    /\ result = None
    /\ result' = CASE lexed.kind = "Panic" -> Panic
                   [] lexed.kind = "Err" -> [kind |-> "Lexer", e |-> lexed.e]
                   [] lexed.kind = "Ok" ->
                        Only({ IF ast.kind = "Ok" THEN ast
                               ELSE [kind |-> "Parser", e |-> ast.err] :
                                 ast \in {parse(lexed.tokens)} })
    /\ UNCHANGED <<input, pos, tokens, lexed, evaluated, build, rpn, diag>>
    /\ UNCHANGED calc_vars

\* Interpreter.eval(&ast), in a build with or without overflow checks
Eval ==
    /\ result.kind = "Ok"
    /\ evaluated = None
    /\ \E overflow_checks \in BOOLEAN :
           /\ evaluated' = eval(result.ast, overflow_checks)
           /\ build' = [kind |-> "Build", overflow_checks |-> overflow_checks]
    /\ UNCHANGED <<input, pos, tokens, lexed, result, rpn, diag>>
    /\ UNCHANGED calc_vars

\* RpnCompiler.compile(&ast), up to MaxCompile times
Compile ==
    /\ result.kind = "Ok"
    /\ Len(rpn) < MaxCompile
    /\ rpn' = Append(rpn, compile(result.ast))
    /\ UNCHANGED <<input, pos, tokens, lexed, result, evaluated, build, diag>>
    /\ UNCHANGED calc_vars

\* the strings show_diagnostic is called with: the one that was parsed and,
\* as it takes any string, the empty one
Shown(parsed) == {parsed, << >>}

\* Error::show_diagnostic(s)
ShowDiagnostic ==
    /\ result.kind \in {"Lexer", "Parser"}
    /\ diag = None
    /\ \E s \in Shown(input) : diag' = show_diagnostic(result, s)
    /\ UNCHANGED <<input, pos, tokens, lexed, result, evaluated, build, rpn>>
    /\ UNCHANGED calc_vars

\* InterpreterError::show_diagnostic(s)
ShowInterpreterDiagnostic ==
    /\ evaluated.kind = "Err"
    /\ diag = None
    /\ \E s \in Shown(input) : diag' = show_interpreter_diagnostic(evaluated.e, s)
    /\ UNCHANGED <<input, pos, tokens, lexed, result, evaluated, build, rpn>>
    /\ UNCHANGED calc_vars

Next ==
    \/ LexStep
    \/ LexReturn
    \/ FromStr
    \/ Eval
    \/ Compile
    \/ ShowDiagnostic
    \/ ShowInterpreterDiagnostic

Spec == Init /\ [][Next]_vars

(***************************************************************************)
(* gear-book/src/ch04.rs: RpnCalculator, a stack calculator over i32.      *)
(* A formula and a token are sequences of characters; an i32 is a signed   *)
(* integer [neg, mag] as above.                                            *)
(***************************************************************************)

Pow2_31 == <<21, 4748, 3648>>

Pow2_32 == <<42, 9496, 7296>>

I32Min == [neg |-> TRUE, mag |-> Pow2_31]

FitsI32(x) == IF x.neg THEN NatLe(x.mag, Pow2_31) ELSE NatLt(x.mag, Pow2_31)

\* the i32 with the two's-complement bits of x modulo 2^32
WrapI32(x) ==
    Only({ Only({ IF NatLt(m, Pow2_31) THEN SInt(FALSE, m)
                  ELSE SInt(TRUE, NatSub(Pow2_32, m)) :
                    m \in {IF x.neg /\ r # <<0>> THEN NatSub(Pow2_32, r) ELSE r} }) :
             r \in {NatDivMod(x.mag, Pow2_32).r} })

\* remainder with the sign of the dividend, y # 0
SRem(x, y) == SInt(x.neg, NatDivMod(x.mag, y.mag).r)

\* The characters that char::is_whitespace accepts, the White_Space of
\* Unicode: U+0009 to U+000D, the space, U+0085, U+00A0, U+1680, U+2000 to
\* U+200A, U+2028, U+2029, U+202F, U+205F and U+3000.  A character of a
\* formula is a string: the character itself up to U+007F, "U+" and the four
\* hexadecimal digits of its code point above.
White_Space ==
    {"\t", "\n", "", "\f", "\r", " ",
     "U+0085", "U+00A0", "U+1680",
     "U+2000", "U+2001", "U+2002", "U+2003", "U+2004", "U+2005", "U+2006",
     "U+2007", "U+2008", "U+2009", "U+200A",
     "U+2028", "U+2029", "U+202F", "U+205F", "U+3000"}

\* str::split_whitespace: the maximal runs of characters that are not
\* whitespace, in their order
split_whitespace(s) ==
    LET starts == { i \in 1..Len(s) :
                      s[i] \notin White_Space /\ (i = 1 \/ s[i - 1] \in White_Space) }
        ends   == { i \in 1..Len(s) :
                      s[i] \notin White_Space /\ (i = Len(s) \/ s[i + 1] \in White_Space) }
    IN  [k \in 1..Cardinality(starts) |->
           Only({ SubSeq(s, a, b) :
                    a \in { i \in starts : Cardinality({ j \in starts : j <= i }) = k },
                    b \in { i \in ends : Cardinality({ j \in ends : j <= i }) = k } })]

Rev(s) == [i \in 1..Len(s) |-> s[Len(s) + 1 - i]]

\* str::parse::<i32>: an optional sign, then one or more ASCII digits whose
\* value is in the range of i32
parse_i32(token) ==
    LET digits == IF token # << >> /\ token[1] \in {"+", "-"} THEN Tail(token) ELSE token
    IN  IF digits = << >> \/ \E i \in 1..Len(digits) : digits[i] \notin Digits
        THEN [kind |-> "Err"]
        ELSE Only({ IF u.kind = "Ok" /\ FitsI32(SInt(token[1] = "-", u.v))
                    THEN Ok(SInt(token[1] = "-", u.v))
                    ELSE [kind |-> "Err"] : u \in {parse_u64(digits)} })

InvalidSyntax(p) == [kind |-> "Err", e |-> [kind |-> "InvalidSyntax", pos |-> p]]

\* + - * on i32: a panic in a build with overflow checks, the wrapped value
\* otherwise
Overflowing32(x, overflow_checks) ==
    IF FitsI32(x) THEN Ok(x)
    ELSE IF overflow_checks THEN Panic ELSE Ok(WrapI32(x))

\* the match of eval_inner on the token
calc_bin_op(token, x, y, p, overflow_checks) ==
    CASE token = <<"+">> -> Only({ Overflowing32(r, overflow_checks) : r \in {SAdd(x, y)} })
      [] token = <<"-">> -> Only({ Overflowing32(r, overflow_checks) : r \in {SSub(x, y)} })
      [] token = <<"*">> -> Only({ Overflowing32(r, overflow_checks) : r \in {SMul(x, y)} })
      [] token = <<"/">> ->
           IF y = SOfInt(0) \/ (x = I32Min /\ y = SInt(TRUE, <<1>>))
           THEN Panic       \* division by zero, i32::MIN / -1: in every build
           ELSE Ok(SDiv(x, y))
      [] token = <<"%">> ->
           IF y = SOfInt(0) \/ (x = I32Min /\ y = SInt(TRUE, <<1>>))
           THEN Panic       \* as for the division
           ELSE Ok(SRem(x, y))
      [] OTHER -> InvalidSyntax(p)

\* one turn of the loop of eval_inner on the token popped: res is Running
\* when the loop goes on and else how eval_inner ends, stack is the stack
\* afterwards (y and x are popped before the token is matched)
eval_inner_step(token, stack, p, overflow_checks) ==
    Only({ IF lit.kind = "Ok"
           THEN [res |-> Running, stack |-> Append(stack, lit.v)]
           ELSE IF Len(stack) = 0
           THEN [res |-> InvalidSyntax(p), stack |-> stack]
           ELSE IF Len(stack) = 1
           THEN [res |-> InvalidSyntax(p), stack |-> << >>]
           ELSE Only({ IF res.kind = "Ok"
                       THEN [res |-> Running, stack |-> Append(rest, res.v)]
                       ELSE [res |-> res, stack |-> rest] :
                         res \in {calc_bin_op(token, stack[Len(stack) - 1],
                                              stack[Len(stack)], p, overflow_checks)},
                         rest \in {SubSeq(stack, 1, Len(stack) - 2)} }) :
             lit \in {parse_i32(token)} })

\* the end of eval_inner
eval_inner_end(stack) ==
    IF Len(stack) = 1 THEN Ok(stack[1]) ELSE InvalidSyntax(-1)

MaxTokens == 3

WTwo == <<"2">>    \* '2'

WThree == <<"3">>    \* '3'

WZero == <<"0">>    \* '0'

WMinusOne == <<"-", "1">>    \* '-1'

WPlus == <<"+">>    \* '+'

WMinus == <<"-">>    \* '-'

WAsterisk == <<"*">>    \* '*'

WSlash == <<"/">>    \* '/'

WPercent == <<"%">>    \* '%'

WCaret == <<"^">>    \* '^'

WI32Max == <<"2", "1", "4", "7", "4", "8", "3", "6", "4", "7">>    \* '2147483647'

WI32Min == <<"-", "2", "1", "4", "7", "4", "8", "3", "6", "4", "8">>    \* '-2147483648'

CalcWords == {WTwo, WThree, WZero, WMinusOne, WPlus, WMinus,
              WAsterisk, WSlash, WPercent, WCaret, WI32Max, WI32Min}

\* the formulas of the tests, and formulas with blanks, signs, numbers out
\* of range and operations that overflow
NamedFormulas == {
    <<"5">>,    \* '5'
    <<"5", "0">>,    \* '50'
    <<"-", "5", "0">>,    \* '-50'
    <<"2", " ", "3", " ", "+">>,    \* '2 3 +'
    <<"2", " ", "3", " ", "*">>,    \* '2 3 *'
    <<"2", " ", "3", " ", "-">>,    \* '2 3 -'
    <<"2", " ", "3", " ", "/">>,    \* '2 3 /'
    <<"2", " ", "3", " ", "%">>,    \* '2 3 %'
    <<>>,    \* ''
    <<"1", " ", "1", " ", "1", " ", "+">>,    \* '1 1 1 +'
    <<"+", " ", "1", " ", "1">>,    \* '+ 1 1'
    <<"1", " ", "1", " ", "^">>,    \* '1 1 ^'
    <<" ", "2", "\t", "3", "\r", "\n", "+", "\f">>,    \* ' 2\t3\r\n+\f'
    <<"+", "5", " ", "2", " ", "-">>,    \* '+5 2 -'
    <<"2", "1", "4", "7", "4", "8", "3", "6", "4", "8", " ", "1", " ", "+">>,    \* '2147483648 1 +'
    <<"1", " ", "2", " ", "2", "1", "4", "7", "4", "8", "3", "6", "4", "8">>,    \* '1 2 2147483648'
    <<"-", "-", "1", " ", "2", " ", "+">>,    \* '--1 2 +'
    <<"1", " ", "2", "a", " ", "+">>,    \* '1 2a +'
    <<"0", "0", "7", " ", "-", "0", "0", " ", "+">>,    \* '007 -00 +'
    <<"7", " ", "2", " ", "3", " ", "*", " ", "-", " ", "4", " ", "%">>,    \* '7 2 3 * - 4 %'
    <<"-", "7", " ", "2", " ", "%">>,    \* '-7 2 %'
    <<"1", " ", "2", " ", "+", " ", "-">>,    \* '1 2 + -'
    <<"-", "2", "1", "4", "7", "4", "8", "3", "6", "4", "8", " ", "-", "1", " ", "/">>,    \* '-2147483648 -1 /'
    <<"6", "5", "5", "3", "6", " ", "6", "5", "5", "3", "6", " ", "*">>,    \* '65536 65536 *'
    <<"1", " ", "2", " ", "3", " ", "4", " ", "5", " ", "+", " ", "+", " ", "+", " ", "+">>,    \* '1 2 3 4 5 + + + +'
    <<"2", "", "3", " ", "+">>,    \* '2\u{b}3 +'
    <<"2", " ", "3", "U+0085", "+">>,    \* '2 3\u{85}+'
    <<"U+00A0", "2", "U+00A0", "3", " ", "+", "U+00A0">>,    \* '\u{a0}2\u{a0}3 +\u{a0}'
    <<"2", "U+3000", "3", "U+1680", "U+2028", "+">>,    \* '2\u{3000}3\u{1680}\u{2028}+'
    <<"2", "U+00E9", "3", " ", "+">>,    \* '2\u{e9}3 +'
    <<"2", "U+200B", "3", " ", "+">> }    \* '2\u{200b}3 +': U+200B is no White_Space

RECURSIVE Join(_)
\* the words with one space between them
Join(ws) ==
    IF ws = << >> THEN << >>
    ELSE IF Len(ws) = 1 THEN ws[1]
    ELSE ws[1] \o <<" ">> \o Join(Tail(ws))

Formulas ==
    NamedFormulas \cup
    { Join(ws) : ws \in UNION { [1..n -> CalcWords] : n \in 0..MaxTokens } }

\* the parser and the interpreter of ch09.rs are not run
Ch09Idle ==
    /\ input = << >>
    /\ pos = 0
    /\ tokens = << >>
    /\ lexed = None
    /\ result = None
    /\ evaluated = None
    /\ build = None
    /\ rpn = << >>
    /\ diag = None

ch09_vars == <<input, pos, tokens, lexed, result, evaluated, build, rpn, diag>>

CalcInit ==
    /\ Ch09Idle
    /\ formula \in Formulas
    /\ verbose \in BOOLEAN
    /\ calc_checks \in BOOLEAN
    /\ calc_tokens = << >>
    /\ calc_stack = << >>
    /\ calc_pos = 0
    /\ calc_result = None
    /\ printed = << >>

\* RpnCalculator::eval up to the loop of eval_inner
CalcEval ==
    /\ calc_result = None
    /\ calc_tokens' = Rev(split_whitespace(formula))
    /\ calc_stack' = << >>
    /\ calc_pos' = 0
    /\ calc_result' = Running
    /\ UNCHANGED <<formula, verbose, calc_checks, printed>>
    /\ UNCHANGED ch09_vars

\* one turn of the loop of eval_inner
CalcStep ==
    /\ calc_result = Running
    /\ calc_tokens # << >>
    /\ calc_tokens' = SubSeq(calc_tokens, 1, Len(calc_tokens) - 1)
    /\ calc_pos' = calc_pos + 1
    /\ \E r \in {eval_inner_step(calc_tokens[Len(calc_tokens)], calc_stack,
                                 calc_pos + 1, calc_checks)} :
         /\ calc_stack' = r.stack
         /\ calc_result' = r.res
         /\ printed' = IF verbose /\ r.res = Running
                       THEN Append(printed, <<calc_tokens', r.stack>>)
                       ELSE printed
    /\ UNCHANGED <<formula, verbose, calc_checks>>
    /\ UNCHANGED ch09_vars

\* the tokens are exhausted
CalcReturn ==
    /\ calc_result = Running
    /\ calc_tokens = << >>
    /\ calc_result' = eval_inner_end(calc_stack)
    /\ UNCHANGED <<formula, verbose, calc_checks, calc_tokens, calc_stack, calc_pos,
                   printed>>
    /\ UNCHANGED ch09_vars

CalcNext ==
    \/ CalcEval
    \/ CalcStep
    \/ CalcReturn

CalcSpec == CalcInit /\ [][CalcNext]_vars


----------------------------------------------------------------------------
(* What the properties are stated with: the source text read on its own,   *)
(* without the lexer.                                                      *)

OperatorBytes == {"+", "-", "*", "/", "(", ")"}

ByteOfKind(k) ==
    CASE k = "Plus" -> "+" [] k = "Minus" -> "-" [] k = "Asterisk" -> "*"
      [] k = "Slash" -> "/" [] k = "LParen" -> "(" [] k = "RParen" -> ")"

\* the bytes of s at the offsets loc[1] .. loc[2] - 1
Text(s, loc) == SubSeq(s, loc[1] + 1, loc[2])

\* a decimal text without its leading zeros (one digit at least is kept)
StripZeros(t) ==
    SubSeq(t, CHOOSE k \in 1..Len(t) :
                  /\ \A j \in 1..(k - 1) : t[j] = "0"
                  /\ (k = Len(t) \/ t[k] # "0"),
           Len(t))

\* a <= b, for decimal texts without leading zeros
DecimalLe(a, b) ==
    \/ Len(a) < Len(b)
    \/ /\ Len(a) = Len(b)
       /\ \/ a = b
          \/ \E k \in 1..Len(a) :
                /\ \A j \in 1..(k - 1) : a[j] = b[j]
                /\ DigitVal(a[k]) < DigitVal(b[k])

\* the maximal runs of digits of s, as spans
DigitRuns(s) ==
    { run \in (0..Len(s)) \X (0..Len(s)) :
        /\ run[1] < run[2]
        /\ \A q \in run[1]..(run[2] - 1) : s[q + 1] \in Digits
        /\ (run[1] = 0 \/ s[run[1]] \notin Digits)
        /\ (run[2] = Len(s) \/ s[run[2] + 1] \notin Digits) }

\* the run is the decimal text of a number that is at most u64::MAX
RunFits(s, run) == DecimalLe(StripZeros(Text(s, run)), InU64Max)

ValidBytes(s) == \A p \in 1..Len(s) : s[p] \in Digits \cup OperatorBytes \cup Spaces

\* the offset of the first byte of s that is no digit, operator or space
FirstInvalid(s) ==
    CHOOSE p \in 0..(Len(s) - 1) :
        /\ s[p + 1] \notin Digits \cup OperatorBytes \cup Spaces
        /\ \A q \in 0..(p - 1) : s[q + 1] \in Digits \cup OperatorBytes \cup Spaces

\* a run of digits that starts before p does not fit in a u64
OverflowBefore(s, p) == \E run \in DigitRuns(s) : run[1] < p /\ ~RunFits(s, run)

\* toks is the tokenization of s that the lexer's contract describes
TokenContract(s, toks) ==
    /\ \A i \in 1..Len(toks) :
          /\ 0 <= toks[i].loc[1] /\ toks[i].loc[1] < toks[i].loc[2]
          /\ toks[i].loc[2] <= Len(s)
          /\ IF toks[i].value.kind = "Number"
             THEN /\ toks[i].loc \in DigitRuns(s)
                  /\ to_string(toks[i].value.n) = StripZeros(Text(s, toks[i].loc))
             ELSE /\ toks[i].loc[2] = toks[i].loc[1] + 1
                  /\ s[toks[i].loc[1] + 1] = ByteOfKind(toks[i].value.kind)
    /\ \A i \in 1..(Len(toks) - 1) : toks[i].loc[2] <= toks[i + 1].loc[1]
    /\ \A p \in 0..(Len(s) - 1) :
          IF s[p + 1] \in Spaces
          THEN \A i \in 1..Len(toks) : ~(toks[i].loc[1] <= p /\ p < toks[i].loc[2])
          ELSE \E i \in 1..Len(toks) : toks[i].loc[1] <= p /\ p < toks[i].loc[2]

----------------------------------------------------------------------------
(* The lexer. *)

\* C1: when every byte of the input is a digit, one of + - * / ( ) or a
\* space, newline or tab, and every maximal run of digits fits in a u64,
\* lex returns Ok with one Number token for each maximal run of digits,
\* holding the run's value and spanning exactly the run, and one token for
\* each operator or parenthesis byte, of that byte's kind and spanning that
\* byte; the tokens are in source order and no token covers whitespace.
C1_TokenContract ==
    (lexed # Running /\ ValidBytes(input)
       /\ \A run \in DigitRuns(input) : RunFits(input, run))
    => (lexed.kind = "Ok" /\ TokenContract(input, lexed.tokens))

C1_Witness ==
    /\ lexed.kind = "Ok"
    /\ \E p \in 1..Len(input) : input[p] \in Spaces
    /\ \E i \in 1..Len(lexed.tokens) :
          /\ lexed.tokens[i].value.kind = "Number"
          /\ lexed.tokens[i].loc[2] > lexed.tokens[i].loc[1] + 1
    /\ \E i \in 1..Len(lexed.tokens) : lexed.tokens[i].value.kind # "Number"

\* what lex and from_str return when they stop at the first invalid byte
StopsAtFirstInvalid ==
    /\ lexed = [kind |-> "Err",
                e |-> Annotation([kind |-> "InvalidChar",
                                  c |-> input[FirstInvalid(input) + 1]],
                                 Loc(FirstInvalid(input), FirstInvalid(input) + 1))]
    /\ result \in {None, [kind |-> "Lexer", e |-> lexed.e]}

\* C2: when the input has a byte that is no digit, operator, parenthesis or
\* whitespace, and no run of digits before the first such byte exceeds
\* u64::MAX, lex returns Err(InvalidChar(b)) for that first byte b with the
\* span [pos, pos + 1) of its offset pos, returns no tokens, and from_str
\* returns that error as a lexer error without parsing; when a run of
\* digits before that byte exceeds u64::MAX, lex panics instead and so
\* does from_str.
C2_InvalidChar ==
    (lexed # Running /\ ~ValidBytes(input))
    => IF OverflowBefore(input, FirstInvalid(input))
       THEN lexed = Panic /\ result \in {None, Panic}
       ELSE StopsAtFirstInvalid

C2_Witness ==
    /\ ~ValidBytes(input)
    /\ FirstInvalid(input) > 0
    /\ ~OverflowBefore(input, FirstInvalid(input))
    /\ result.kind = "Lexer"

\* C2 as the specification states it: the first invalid byte is reported
\* whatever comes before it
C2_Original ==
    (lexed # Running /\ ~ValidBytes(input)) => StopsAtFirstInvalid

----------------------------------------------------------------------------
(* The parser: the shape of the tree. *)

\* the nodes of a tree
RECURSIVE Subtrees(_)
Subtrees(a) ==
    CASE a.kind = "Num" -> {a}
      [] a.kind = "UniOp" -> {a} \cup Subtrees(a.e)
      [] a.kind = "BinOp" -> {a} \cup Subtrees(a.l) \cup Subtrees(a.r)

\* the token an operator of the tree was made from
TokenOfOp(op) ==
    Annotation(Kind(CASE op.value.kind = "Add" -> "Plus"
                      [] op.value.kind = "Sub" -> "Minus"
                      [] op.value.kind = "Multi" -> "Asterisk"
                      [] op.value.kind = "Div" -> "Slash"
                      [] OTHER -> op.value.kind),
               op.loc)

\* the numbers and operators of a tree, read from left to right
RECURSIVE Flatten(_)
Flatten(a) ==
    CASE a.kind = "Num" -> <<Annotation(Number(a.n), a.loc)>>
      [] a.kind = "UniOp" -> <<TokenOfOp(a.op)>> \o Flatten(a.e)
      [] a.kind = "BinOp" -> Flatten(a.l) \o <<TokenOfOp(a.op)>> \o Flatten(a.r)

IsParen(t) == t.value.kind \in {"LParen", "RParen"}

NotParen(t) == ~IsParen(t)

NoParens(toks) == \A i \in 1..Len(toks) : ~IsParen(toks[i])

IsAdditive(a) == a.kind = "BinOp" /\ a.op.value.kind \in {"Add", "Sub"}

IsMultiplicative(a) == a.kind = "BinOp" /\ a.op.value.kind \in {"Multi", "Div"}

\* the grouping of a tree parsed from tokens without parentheses: a chain
\* of one level has its earlier operators in the left operand, and an
\* operand of * or / is never a sum or a difference
GroupsLeftByLevel(n) ==
    /\ IsAdditive(n) => ~IsAdditive(n.r)
    /\ IsMultiplicative(n) => (n.r.kind # "BinOp" /\ ~IsAdditive(n.l))
    /\ n.kind = "UniOp" => n.e.kind = "Num"

\* C3: + and - are left-associative and so are * and /, and * and / bind
\* tighter than + and -: the tree of a successful parse holds the numbers
\* and operators in token order, without parentheses every chain of one
\* level groups to the left with no sum or difference as an operand of *
\* or /, and the span of every BinOp node is the merge (least start,
\* greatest end) of the spans of its two operands; "8 - 3 - 2" evaluates
\* to 3, "1 + 2 * 3" to 7 and "(1 + 2) * 3" to 9.
C3_LeftAssociative ==
    result.kind = "Ok" =>
      /\ Flatten(result.ast) = SelectSeq(lexed.tokens, NotParen)
      /\ \A n \in Subtrees(result.ast) :
            /\ n.kind = "BinOp" =>
                  n.loc = <<Min(n.l.loc[1], n.r.loc[1]), Max(n.l.loc[2], n.r.loc[2])>>
            /\ NoParens(lexed.tokens) => GroupsLeftByLevel(n)
      /\ evaluated # None =>
            /\ input = InLeftAssoc => evaluated = Ok(SOfInt(3))
            /\ input = InPrecedence => evaluated = Ok(SOfInt(7))
            /\ input = InParens => evaluated = Ok(SOfInt(9))

C3_Witness ==
    /\ result.kind = "Ok"
    /\ NoParens(lexed.tokens)
    /\ IsAdditive(result.ast) /\ IsAdditive(result.ast.l)
    /\ IsMultiplicative(result.ast.l.r)
    /\ evaluated.kind = "Ok"

----------------------------------------------------------------------------
(* The parser: its errors.  Where the parser stands after some tokens is   *)
(* told from what it makes of those tokens alone.                          *)

Prefix(toks, k) == SubSeq(toks, 1, k)

NumberTok == Annotation(Number(<<0>>), Loc(0, 1))

FailsWith(r, k) == r.kind = "Err" /\ r.err.kind = k

\* the first k tokens are a complete expression at the top level
CompleteAt(toks, k) == parse(Prefix(toks, k)).kind = "Ok"

\* after the first k tokens a complete expression stands after an open
\* parenthesis: the closing parenthesis is expected
ClosingExpectedAt(toks, k) == FailsWith(parse(Prefix(toks, k)), "UnclosedOpenParen")

\* after the first j - 1 tokens an operand is required: a number there
\* would be taken
OperandExpectedAt(toks, j) ==
    \/ parse(Prefix(toks, j - 1) \o <<NumberTok>>).kind = "Ok"
    \/ FailsWith(parse(Prefix(toks, j - 1) \o <<NumberTok>>), "UnclosedOpenParen")

ParserFailed(k, tok) == result = [kind |-> "Parser", e |-> ParseError(k, tok)]

Parsed == lexed.kind = "Ok" /\ result # None

\* C4: when a complete expression has been parsed and the next token may
\* not follow it (at the top level a number or a parenthesis, where the
\* closing parenthesis is expected a number or an open parenthesis), parse
\* fails with RedundantExpression carrying exactly that token, and it fails
\* so only there; "(+ 1 3)" fails on Number(3) at 5-6; parse returns Ok
\* only when the whole token sequence has been consumed.
C4_RedundantExpression ==
    Parsed =>
      /\ \A k \in 1..(Len(lexed.tokens) - 1) :
            /\ (CompleteAt(lexed.tokens, k)
                  /\ lexed.tokens[k + 1].value.kind \in {"Number", "LParen", "RParen"})
               => ParserFailed("RedundantExpression", lexed.tokens[k + 1])
            /\ (ClosingExpectedAt(lexed.tokens, k)
                  /\ lexed.tokens[k + 1].value.kind \in {"Number", "LParen"})
               => ParserFailed("RedundantExpression", lexed.tokens[k + 1])
      /\ (result.kind = "Parser" /\ result.e.kind = "RedundantExpression")
         => \E k \in 1..(Len(lexed.tokens) - 1) :
               /\ result.e.tok = lexed.tokens[k + 1]
               /\ CompleteAt(lexed.tokens, k) \/ ClosingExpectedAt(lexed.tokens, k)
      /\ input = InRedundant
         => ParserFailed("RedundantExpression", Annotation(Number(<<3>>), Loc(5, 6)))
      /\ result.kind = "Ok"
         => /\ parse_expr(lexed.tokens, 1).i = Len(lexed.tokens) + 1
            /\ Flatten(result.ast) = SelectSeq(lexed.tokens, NotParen)
            /\ Cardinality({i \in 1..Len(lexed.tokens) :
                               lexed.tokens[i].value.kind = "LParen"})
                 = Cardinality({i \in 1..Len(lexed.tokens) :
                                  lexed.tokens[i].value.kind = "RParen"})

C4_Witness ==
    /\ result.kind = "Parser"
    /\ result.e.kind = "RedundantExpression"
    /\ result.e.tok.value.kind = "Number"
    /\ \E k \in 1..(Len(lexed.tokens) - 1) :
          /\ ClosingExpectedAt(lexed.tokens, k)
          /\ result.e.tok = lexed.tokens[k + 1]

\* the open parenthesis at j has no closing parenthesis after it
Unmatched(toks, j) ==
    /\ toks[j].value.kind = "LParen"
    /\ \A k \in (j + 1)..Len(toks) :
          Cardinality({i \in (j + 1)..k : toks[i].value.kind = "RParen"})
            <= Cardinality({i \in (j + 1)..k : toks[i].value.kind = "LParen"})

\* the parser ran into the end of the input
EndOfInputError ==
    result.kind = "Parser" /\ result.e.kind \in {"Eof", "UnclosedOpenParen"}

\* C5: when an open parenthesis stands where an operand is expected and
\* the input ends right after a complete expression that follows it, where
\* its closing parenthesis is expected, parse fails with UnclosedOpenParen
\* carrying that open-parenthesis token, with the span of the ( itself,
\* and it fails so only there: the token is the innermost parenthesis left
\* open; "1 + (2 - 3" fails on the ( at 4-5.  When the input ends earlier,
\* within the expression after the parenthesis, parse fails with Eof.
C5_UnclosedOpenParen ==
    Parsed =>
      /\ \A j \in 1..Len(lexed.tokens) :
            (lexed.tokens[j].value.kind = "LParen"
               /\ OperandExpectedAt(lexed.tokens, j)
               /\ parse(SubSeq(lexed.tokens, j + 1, Len(lexed.tokens))).kind = "Ok")
            => ParserFailed("UnclosedOpenParen", lexed.tokens[j])
      /\ (result.kind = "Parser" /\ result.e.kind = "UnclosedOpenParen")
         => \E j \in 1..Len(lexed.tokens) :
               /\ result.e.tok = lexed.tokens[j]
               /\ result.e.tok.loc[2] = result.e.tok.loc[1] + 1
               /\ input[result.e.tok.loc[1] + 1] = "("
               /\ Unmatched(lexed.tokens, j)
               /\ \A k \in (j + 1)..Len(lexed.tokens) : ~Unmatched(lexed.tokens, k)
               /\ parse(SubSeq(lexed.tokens, j + 1, Len(lexed.tokens))).kind = "Ok"
      /\ \A j \in 1..Len(lexed.tokens) :
            (Unmatched(lexed.tokens, j) /\ OperandExpectedAt(lexed.tokens, j)
               /\ parse(SubSeq(lexed.tokens, j + 1, Len(lexed.tokens))).kind # "Ok"
               /\ \A k \in (j + 1)..Len(lexed.tokens) : ~Unmatched(lexed.tokens, k)
               /\ EndOfInputError)
            => result = [kind |-> "Parser", e |-> ParseEof]
      /\ input = InUnclosed
         => ParserFailed("UnclosedOpenParen", Annotation(Kind("LParen"), Loc(4, 5)))

C5_Witness ==
    /\ result.kind = "Parser"
    /\ result.e.kind = "UnclosedOpenParen"
    /\ \E j \in 2..Len(lexed.tokens) :
          /\ result.e.tok = lexed.tokens[j]
          /\ Unmatched(lexed.tokens, j - 1)

\* C5 as the specification states it: whenever the input ends before the
\* closing parenthesis of an open parenthesis is found, the error is
\* UnclosedOpenParen with an open parenthesis that is left open
C5_Original ==
    (Parsed /\ EndOfInputError
       /\ \E j \in 1..Len(lexed.tokens) : Unmatched(lexed.tokens, j))
    => /\ result.e.kind = "UnclosedOpenParen"
       /\ \E j \in 1..Len(lexed.tokens) :
             Unmatched(lexed.tokens, j) /\ result.e.tok = lexed.tokens[j]

IsSign(t) == t.value.kind \in {"Plus", "Minus"}

\* the token before j is a sign that was taken as a unary sign
AfterUnarySign(toks, j) ==
    j >= 2 /\ IsSign(toks[j - 1]) /\ OperandExpectedAt(toks, j - 1)

\* an operand is expected only at the start, after an operator or a sign,
\* and after an open parenthesis
OperandPlace(toks, j) ==
    j = 1 \/ toks[j - 1].value.kind \in {"Plus", "Minus", "Asterisk", "Slash", "LParen"}

\* C6: where an operand is expected (at the start of the input, after a
\* binary operator, after a unary sign, after an open parenthesis), parse
\* fails with NotExpression carrying the next token when that token is * /
\* or ), or is + or - directly after a unary sign; a + or - elsewhere is
\* taken as a unary sign and an operand is then expected after it; parse
\* fails with Eof when no token remains there, and NotExpression and Eof
\* arise only so.  "1 + 2 - * 3" fails with NotExpression on * at 8-9,
\* "1 +" and the empty input fail with Eof.
C6_NotExpression ==
    Parsed =>
      /\ \A j \in 1..Len(lexed.tokens) :
            OperandExpectedAt(lexed.tokens, j)
            => /\ OperandPlace(lexed.tokens, j)
               /\ lexed.tokens[j].value.kind \in {"Asterisk", "Slash", "RParen"}
                  => ParserFailed("NotExpression", lexed.tokens[j])
               /\ IsSign(lexed.tokens[j])
                  => IF AfterUnarySign(lexed.tokens, j)
                     THEN ParserFailed("NotExpression", lexed.tokens[j])
                     ELSE OperandExpectedAt(lexed.tokens, j + 1)
      /\ OperandExpectedAt(lexed.tokens, Len(lexed.tokens) + 1)
         => /\ OperandPlace(lexed.tokens, Len(lexed.tokens) + 1)
            /\ result = [kind |-> "Parser", e |-> ParseEof]
      /\ (result.kind = "Parser" /\ result.e.kind = "NotExpression")
         => \E j \in 1..Len(lexed.tokens) :
               /\ result.e.tok = lexed.tokens[j]
               /\ OperandExpectedAt(lexed.tokens, j)
               /\ lexed.tokens[j].value.kind \notin {"Number", "LParen"}
      /\ result = [kind |-> "Parser", e |-> ParseEof]
         => OperandExpectedAt(lexed.tokens, Len(lexed.tokens) + 1)
      /\ input = InNotExpression
         => ParserFailed("NotExpression", Annotation(Kind("Asterisk"), Loc(8, 9)))
      /\ input \in {InEof, << >>} => result = [kind |-> "Parser", e |-> ParseEof]

C6_Witness ==
    /\ result.kind = "Parser"
    /\ result.e.kind = "NotExpression"
    /\ IsSign(result.e.tok)
    /\ \E j \in 2..Len(lexed.tokens) :
          /\ result.e.tok = lexed.tokens[j]
          /\ AfterUnarySign(lexed.tokens, j)

\* C6 as the specification states it: where an operand is expected, every
\* token that is no number and no open parenthesis is refused
C6_Original ==
    Parsed =>
      /\ \A j \in 1..Len(lexed.tokens) :
            (OperandExpectedAt(lexed.tokens, j)
               /\ lexed.tokens[j].value.kind \notin {"Number", "LParen"})
            => ParserFailed("NotExpression", lexed.tokens[j])
      /\ OperandExpectedAt(lexed.tokens, Len(lexed.tokens) + 1)
         => result = [kind |-> "Parser", e |-> ParseEof]

----------------------------------------------------------------------------
(* The interpreter. *)

\* the nodes of a tree in the order in which their evaluation ends: the
\* left operand, the right operand, then the node
RECURSIVE PostOrder(_)
PostOrder(a) ==
    CASE a.kind = "Num" -> <<a>>
      [] a.kind = "UniOp" -> PostOrder(a.e) \o <<a>>
      [] a.kind = "BinOp" -> PostOrder(a.l) \o PostOrder(a.r) \o <<a>>

\* n is a division whose operands evaluate and whose right operand
\* evaluates to zero
DividesByZero(n, c) ==
    /\ n.kind = "BinOp" /\ n.op.value.kind = "Div"
    /\ eval(n.l, c).kind = "Ok"
    /\ eval(n.r, c) = Ok(SOfInt(0))

\* the first node, in that order, whose own evaluation does not return Ok
\* (None when there is none)
FirstFailing(a, c) ==
    Only({ Only({ IF F = {} THEN None
                  ELSE P[CHOOSE k \in F : \A m \in F : k <= m] :
                    F \in {{k \in 1..Len(P) : eval(P[k], c).kind # "Ok"}} }) :
             P \in {PostOrder(a)} })

DivisionByZeroAt(loc) == [kind |-> "Err", e |-> Annotation("DivisionByZero", loc)]

\* what eval returns for a tree whose first failing node is n
ReturnsFirstFailure(n, c) ==
    IF n = None THEN evaluated.kind = "Ok"
    ELSE /\ evaluated = eval(n, c)
         /\ DividesByZero(n, c) => evaluated = DivisionByZeroAt(n.loc)
         /\ evaluated.kind = "Err" => DividesByZero(n, c)

\* C7: eval evaluates the left operand before the right one and operands
\* before their node, and stops at the first failure: what it returns for
\* the whole tree is what the first node, in that order, whose evaluation
\* does not succeed returns, unchanged by the nodes around it; when that
\* node is a division whose right operand evaluates to zero the result is
\* DivisionByZero with the span of that Div node, and eval returns an error
\* only so; "4 / 0" fails with DivisionByZero at 0-5.
C7_DivisionByZero ==
    (result.kind = "Ok" /\ evaluated # None) =>
      /\ \A n \in {FirstFailing(result.ast, build.overflow_checks)} :
            ReturnsFirstFailure(n, build.overflow_checks)
      /\ input = InDivZero => evaluated = DivisionByZeroAt(Loc(0, 5))

C7_Witness ==
    /\ result.kind = "Ok"
    /\ evaluated.kind = "Err"
    /\ evaluated.e.loc # result.ast.loc
    /\ \E n \in Subtrees(result.ast) :
          /\ DividesByZero(n, build.overflow_checks)
          /\ n.loc # evaluated.e.loc

NoDiv(a) == \A n \in Subtrees(a) : ~(n.kind = "BinOp" /\ n.op.value.kind = "Div")

\* C8, as the specification states it: eval of a tree without a Div node
\* never fails, it returns Ok with a signed 64-bit value.
C8_NeverFailsWithoutDiv ==
    (result.kind = "Ok" /\ evaluated # None /\ NoDiv(result.ast))
    => (evaluated.kind = "Ok" /\ FitsI64(evaluated.v))

----------------------------------------------------------------------------
(* The diagnostic reporter. *)

Within(loc, s) == 0 <= loc[1] /\ loc[1] <= loc[2] /\ loc[2] <= Len(s)

\* the highlight that the reporter derives for a parse error
Highlight(e, s) ==
    CASE e.kind = "Eof" -> Loc(Len(s), Len(s) + 1)
      [] e.kind = "RedundantExpression" -> Loc(e.tok.loc[1], Len(s))
      [] OTHER -> e.tok.loc

\* C9: for a source of digits, + - * /, parentheses and whitespace, lex
\* followed by parse succeeds, or panics in lex when a run of digits
\* exceeds u64::MAX (and only then), or fails with a parse error, never a
\* lexer error; the span a parse error carries is the span of a token,
\* 0 <= start < end <= len; the highlight of the reporter is that span, or
\* from the token's start to len for RedundantExpression, both within
\* [0, len], and for Eof, which carries no span, it is [len, len + 1], one
\* past the end of the source.
C9_SpanWithinSource ==
    (ValidBytes(input) /\ result # None) =>
      /\ result.kind \in {"Ok", "Panic", "Parser"}
      /\ result.kind = "Panic" <=> \E run \in DigitRuns(input) : ~RunFits(input, run)
      /\ (result.kind = "Parser" /\ result.e.kind # "Eof")
         => /\ 0 <= result.e.tok.loc[1] /\ result.e.tok.loc[1] < result.e.tok.loc[2]
            /\ result.e.tok.loc[2] <= Len(input)
            /\ Within(Highlight(result.e, input), input)
      /\ (result.kind = "Parser" /\ diag # None /\ diag.line = input)
         => /\ diag.kind = "Shown"
            /\ diag.loc = Highlight(result.e, input)
            /\ diag.spaces = diag.loc[1] /\ diag.carets = diag.loc[2] - diag.loc[1]
            /\ result.e.kind = "Eof" <=> ~Within(diag.loc, input)

C9_Witness ==
    /\ ValidBytes(input) /\ Len(input) > 0
    /\ result = [kind |-> "Parser", e |-> ParseEof]
    /\ diag # None
    /\ diag.line = input
    /\ diag.before = <<EndOfFile>>
    /\ diag.loc = Loc(Len(input), Len(input) + 1)

\* C9 as the specification states it, for the runs in which lex returns:
\* the span an error carries and the highlight derived for it lie within
\* [0, len]
C9_Original ==
    (ValidBytes(input) /\ result.kind \in {"Lexer", "Parser"}) =>
      /\ result.kind = "Lexer" => Within(result.e.loc, input)
      /\ (result.kind = "Parser" /\ result.e.kind # "Eof")
         => Within(result.e.tok.loc, input)
      /\ (diag # None /\ diag.line = input) => Within(diag.loc, input)

----------------------------------------------------------------------------
(* The RPN compiler. *)

\* the postfix text of a tree, with each number as the source writes it,
\* without leading zeros
RECURSIVE RpnText(_, _)
RpnText(s, a) ==
    CASE a.kind = "Num" -> StripZeros(Text(s, a.loc))
      [] a.kind = "UniOp" -> <<ByteOfKind(a.op.value.kind)>> \o RpnText(s, a.e)
      [] a.kind = "BinOp" ->
           RpnText(s, a.l) \o <<" ">> \o RpnText(s, a.r) \o <<" ">>
             \o <<ByteOfKind(TokenOfOp(a.op).value.kind)>>

\* C10: compile returns, for every tree, its postfix text: a Num as the
\* decimal text of its number, a UniOp as the sign directly followed by the
\* text of its operand, a BinOp as the text of the left operand, a space,
\* the text of the right operand, a space and the operator character; and
\* every call on the same tree returns the same string.
C10_RpnCompile ==
    result.kind = "Ok" =>
      /\ compile(result.ast) = RpnText(input, result.ast)
      /\ \A i \in 1..Len(rpn) : rpn[i] = RpnText(input, result.ast)
      /\ \A i, j \in 1..Len(rpn) : rpn[i] = rpn[j]

C10_Witness ==
    /\ result.kind = "Ok"
    /\ Len(rpn) = 2
    /\ \E n \in Subtrees(result.ast) : n.kind = "UniOp"
    /\ \E n \in Subtrees(result.ast) : n.kind = "BinOp" /\ n.r.kind = "BinOp"

(***************************************************************************)
(* C11: RpnCalculator.eval                                                 *)
(***************************************************************************)

CalcOperators == {<<"+">>, <<"-">>, <<"*">>, <<"/">>, <<"%">>}

IsLiteral(token) == parse_i32(token).kind = "Ok"

\* the size of the stack after the first k tokens, when none of them offends
Depth(toks, k) ==
    Cardinality({ i \in 1..k : IsLiteral(toks[i]) })
      - Cardinality({ i \in 1..k : ~IsLiteral(toks[i]) })

\* a token that is not an integer and is met with fewer than two values on
\* the stack or is not one of the five operators
Offending(toks, k) ==
    /\ ~IsLiteral(toks[k])
    /\ Depth(toks, k - 1) < 2 \/ toks[k] \notin CalcOperators

CalcReturned == calc_result \notin {None, Running}

\* what C11 says eval returns for the tokens
SaysReturns(toks, r) ==
    IF \E k \in 1..Len(toks) : Offending(toks, k)
    THEN r = InvalidSyntax(CHOOSE k \in 1..Len(toks) :
                             /\ Offending(toks, k)
                             /\ \A j \in 1..(k - 1) : ~Offending(toks, j))
    ELSE IF Depth(toks, Len(toks)) # 1
    THEN r = InvalidSyntax(-1)
    ELSE r.kind = "Ok" /\ calc_stack = <<r.v>>

\* C11: eval returns InvalidSyntax(p) for the first token, the p-th, that is
\* not an integer and is met with fewer than two values on the stack or is
\* not one of + - * / %, InvalidSyntax(-1) when the tokens are exhausted with
\* a stack size other than one, and otherwise Ok with the one value left on
\* the stack.
C11_EvalReturns ==
    CalcReturned => SaysReturns(split_whitespace(formula), calc_result)

\* eval returns what C11 says whenever it returns: the formulas on which it
\* differs are those on which an operator panics
C11_ReturnsUnlessPanic ==
    (CalcReturned /\ calc_result # Panic)
        => SaysReturns(split_whitespace(formula), calc_result)

\* a division by zero ends eval in a panic
C11_PanicReached ==
    /\ calc_result = Panic
    /\ split_whitespace(formula) = <<WTwo, WZero, WSlash>>

(***************************************************************************)
(* C12: the errors parse returns                                           *)
(***************************************************************************)

ReturnedErrors == {"NotExpression", "UnclosedOpenParen", "RedundantExpression", "Eof"}

\* the operator parser fails with NotOperator on the i-th token
NotOperatorAt(toks, i) ==
    /\ ~parse_expr3_op(toks, i).ok
    /\ parse_expr3_op(toks, i).err = ParseError("NotOperator", toks[i])

\* the loop of parse_left_binop, met at the i-th token with the expression e
\* parsed so far, stops with e and leaves that token to its caller
Swallowed(toks, i, e) ==
    /\ parse_expr3_op(toks, i).i = i
    /\ parse_left_binop_loop(toks, i, e) = POk(e, i)

\* C12: parse returns no UnexpectedToken and no NotOperator, its errors are
\* NotExpression, UnclosedOpenParen, RedundantExpression and Eof: the
\* operator parser of the additive level fails with NotOperator exactly on a
\* token that is not + or -, and wherever it does the loop of
\* parse_left_binop stops with the expression parsed so far, without
\* consuming that token.
C12_ReturnedErrors ==
    Parsed =>
        /\ result.kind = "Parser" => result.e.kind \in ReturnedErrors
        /\ \A i \in 1..Len(lexed.tokens) :
              /\ NotOperatorAt(lexed.tokens, i)
                    <=> lexed.tokens[i].value.kind \notin {"Plus", "Minus"}
              /\ NotOperatorAt(lexed.tokens, i)
                    => Swallowed(lexed.tokens, i, num(<<0>>, Loc(0, 1)))

\* "1 1" and "(1 1": the additive loop met a number, on which the operator
\* parser fails with NotOperator, and parse reports that token otherwise
C12_Witness ==
    /\ result.kind = "Parser"
    /\ result.e.kind \in {"RedundantExpression", "UnclosedOpenParen"}
    /\ \E i \in 2..Len(lexed.tokens) :
          /\ result.e.tok = lexed.tokens[i]
          /\ NotOperatorAt(lexed.tokens, i)
          /\ parse_left_binop(lexed.tokens, 1).ok

(***************************************************************************)
(* C13: the spans of the nodes                                             *)
(***************************************************************************)

\* from the start of the i-th token to the end of the last token before the
\* j-th
Consumed(toks, i, j) == Loc(toks[i].loc[1], toks[j - 1].loc[2])

\* a parser that succeeds at the i-th token returns a node whose span is
\* that of the tokens it consumed
SpansConsumed(toks, i, r) == r.ok => r.v.loc = Consumed(toks, i, r.i)

\* C13: in a source that parses, the span of every node runs from the start
\* of the first token consumed while parsing it to the end of the last one,
\* enclosing parentheses included: so for the node each of the parsers
\* returns wherever it succeeds, so for the root with the first and the last
\* token of the source, and the span of a unary node is the smallest one
\* covering its sign and its operand.
C13_NodeSpans ==
    (Parsed /\ result.kind = "Ok") =>
        /\ \A i \in 1..Len(lexed.tokens) :
              /\ SpansConsumed(lexed.tokens, i, parse_atom(lexed.tokens, i))
              /\ SpansConsumed(lexed.tokens, i, parse_expr1(lexed.tokens, i))
              /\ SpansConsumed(lexed.tokens, i, parse_expr2(lexed.tokens, i))
              /\ SpansConsumed(lexed.tokens, i, parse_expr3(lexed.tokens, i))
        /\ result.ast.loc = Consumed(lexed.tokens, 1, Len(lexed.tokens) + 1)
        /\ \A n \in Subtrees(result.ast) :
              n.kind = "UniOp" => n.loc = merge(n.op.loc, n.e.loc)

\* what holds of the spans: C13 as it stands in a source without
\* parentheses, and with parentheses the span of a node is the smallest
\* span covering the numbers and operators it holds
C13_SpansOfLeaves ==
    (Parsed /\ result.kind = "Ok") =>
        /\ NoParens(lexed.tokens) => C13_NodeSpans
        /\ \A n \in Subtrees(result.ast) :
              \/ /\ n.kind = "Num"
                 /\ \E i \in 1..Len(lexed.tokens) :
                       lexed.tokens[i] = Annotation(Number(n.n), n.loc)
              \/ /\ n.kind = "UniOp"
                 /\ n.loc = merge(n.op.loc, n.e.loc)
              \/ /\ n.kind = "BinOp"
                 /\ n.loc = merge(n.l.loc, n.r.loc)

\* "(1)": the node is the number, without the parentheses around it
C13_ParensLeftOut ==
    /\ Parsed
    /\ result.kind = "Ok"
    /\ lexed.tokens[1].value.kind = "LParen"
    /\ result.ast.loc[1] > lexed.tokens[1].loc[1]

====
